---- MODULE Spec2Model ----
(***************************************************************************)
(* Model of the network monitor of the endpoint security agent             *)
(* (src/network_monitor/src/lib.rs): NetworkMonitor::analyze_packet,       *)
(* check_malware_signatures, monitor_bandwidth, update_bandwidth_stats and *)
(* detect_anomalies over the NetworkStats they share; and of its file     *)
(* monitor (src/file_monitor/src/lib.rs): FileMonitor::start_monitoring,   *)
(* scan_file and Communication::send_alert; and of the registration form  *)
(* of its GUI (src/gui/src/registration.rs): RegistrationForm::show.       *)
(*                                                                         *)
(* A captured frame is a sequence of bytes; the pnet accessors the code    *)
(* calls (EthernetPacket, Ipv4Packet, TcpPacket) are modelled on the bytes *)
(* they read.  An Option<T> is a sequence of length 0 (None) or 1 (Some).  *)
(***************************************************************************)
EXTENDS Integers, Sequences, FiniteSets, TLC

VARIABLES
    blocked_ips,         \* NetworkMonitor.blocked_ips (set of addresses)
    bandwidth_usage,     \* NetworkStats.bandwidth_usage (bytes, exact in f64)
    connection_count,    \* NetworkStats.connection_count
    packet_count,        \* NetworkStats.packet_count
    known_ips,           \* NetworkStats.known_ips: address -> ConnectionInfo
    port_scan_attempts,  \* NetworkStats.port_scan_attempts: address -> ports
    alert_chan,          \* alerts buffered in the mpsc channel behind tx
    rx_open,             \* the channel's receiver has not been dropped
    pc,                  \* position of the monitor_bandwidth future
    evaluated,           \* frames handed to analyze_packet so far
    last,                \* the last operation, its input and its result
    fm_pc,               \* position of FileMonitor::start_monitoring
    files,               \* the watched directory: path -> content
    events,              \* notify events buffered in start_monitoring's channel
    scan,                \* the scan_file call in progress
    alerts,              \* Communication.alerts of the file monitor
    accepted,            \* alerts the backend answered with a success status
    failed_alerts,       \* the failed_alerts directory: file name -> alert
    clock,               \* Utc::now().timestamp(), in seconds
    writes,              \* files written into the directory so far
    registration_status, \* RegistrationForm.registration_status
    tasks,               \* the registration tasks spawned by the form
    agent_config         \* agent_config.json: absent, or the device it names

vars == <<blocked_ips, bandwidth_usage, connection_count, packet_count,
          known_ips, port_scan_attempts, alert_chan, rx_open, pc, evaluated,
          last, fm_pc, files, events, scan, alerts, accepted, failed_alerts,
          clock, writes, registration_status, tasks, agent_config>>

\* the network monitor's part of the state
netvars == <<blocked_ips, bandwidth_usage, connection_count, packet_count,
             known_ips, port_scan_attempts, alert_chan, rx_open, pc,
             evaluated, last>>

\* the file monitor's part of the state
fmvars == <<fm_pc, files, events, scan, alerts, accepted, failed_alerts,
            clock, writes>>

\* the registration form's part of the state
guivars == <<registration_status, tasks, agent_config>>

stats == <<bandwidth_usage, connection_count, packet_count, known_ips,
           port_scan_attempts>>

----------------------------------------------------------------------------
(* Bounds of the model. *)

\* frames evaluated in one behaviour
MaxPackets == 2

\* capacity of the bounded alert channel handed to monitor_bandwidth
ChanCap == 1

\* longest payload handed to the malware scanner on its own
MaxScanLen == 4

----------------------------------------------------------------------------
(* Constants of the program. *)

\* EthernetPacket::new needs a full Ethernet header
ETHERNET_HEADER_LEN == 14

\* Ipv4Packet::new needs a full IPv4 header without options
IPV4_HEADER_LEN == 20

\* TcpPacket::new needs a full TCP header without options
TCP_HEADER_LEN == 20

\* EtherTypes::Ipv4, 0x0800
ETHERTYPE_IPV4 == 2048

\* entry.len() > 10
PORT_SCAN_THRESHOLD == 10

\* bandwidth_usage / 1_000_000.0
BYTES_PER_MB == 1000000

\* bandwidth_mbps > 100.0
BANDWIDTH_THRESHOLD == 100

PACKET_THRESHOLD == 10000

CONN_THRESHOLD == 100

TIME_WINDOW == 60

\* info.ports_accessed.len() > 20
PORTS_ACCESSED_THRESHOLD == 20

\* info.bytes_sent > 1_000_000
BYTES_SENT_THRESHOLD == 1000000

----------------------------------------------------------------------------
(* Options and alerts. *)

None == <<>>

Some(x) == <<x>>

NoValue == "-"

\* NetworkAlert without device_id and timestamp; description keeps the
\* format string's fixed text.
NetworkAlert(type, sev, descr, src, dst, proto, port) ==
    [alert_type |-> type, severity |-> sev, description |-> descr,
     source_ip |-> src, destination_ip |-> dst, protocol |-> proto,
     port |-> port]

----------------------------------------------------------------------------
(* Packet accessors. *)

U16(hi, lo) == hi * 256 + lo

Min(a, b) == IF a < b THEN a ELSE b

SaturatingSub(a, b) == IF a > b THEN a - b ELSE 0

\* data[from..to), 0-based as in Rust
Slice(data, from, to) == SubSeq(data, from + 1, to)

\* EthernetPacket::new(data) is Some
EthernetPacket_new(data) == Len(data) >= ETHERNET_HEADER_LEN

get_ethertype(eth) == U16(eth[13], eth[14])

EthernetPayload(eth) == Slice(eth, ETHERNET_HEADER_LEN, Len(eth))

\* Ipv4Packet::new(bytes) is Some
Ipv4Packet_new(ip) == Len(ip) >= IPV4_HEADER_LEN

get_source(ip) == Slice(ip, 12, 16)

get_destination(ip) == Slice(ip, 16, 20)

get_next_level_protocol(ip) == ip[10]

get_header_length(ip) == ip[1] % 16

get_total_length(ip) == U16(ip[3], ip[4])

\* Ipv4Packet::payload: the bytes after the header and its options, as far
\* as the total-length field and the captured bytes reach.
Ipv4Payload(ip) ==
    LET start == IPV4_HEADER_LEN
                   + SaturatingSub(get_header_length(ip) * 4, IPV4_HEADER_LEN)
        plen  == SaturatingSub(get_total_length(ip), get_header_length(ip) * 4)
        end   == Min(start + plen, Len(ip))
    IN  IF Len(ip) <= start THEN <<>> ELSE Slice(ip, start, end)

\* TcpPacket::new(bytes) is Some: decided by the length alone
TcpPacket_new(seg) == Len(seg) >= TCP_HEADER_LEN

tcp_get_destination(seg) == U16(seg[3], seg[4])

\* the frame decodes to an IPv4 packet
Decodes(data) ==
    /\ EthernetPacket_new(data)
    /\ get_ethertype(data) = ETHERTYPE_IPV4
    /\ Ipv4Packet_new(EthernetPayload(data))

----------------------------------------------------------------------------
(* Malware signatures. *)

load_malware_signatures ==
    << <<77, 90>>,                              \* DOS MZ header
       <<127, 69, 76, 70>>,                     \* ELF header
       <<104, 116, 116, 112, 58, 47, 47>>,      \* "http://"
       <<119, 115, 50, 95>>,                    \* WinSock API calls
       <<46, 101, 110, 99, 114, 121, 112, 116>>, \* ".encrypt"
       <<46, 108, 111, 99, 107, 101, 100>>,     \* ".locked"
       <<67, 77, 68, 58>>,                      \* "CMD:"
       <<66, 79, 84, 58>> >>                    \* "BOT:"

known_malware_signatures == load_malware_signatures

\* slice::windows(n): every run of n consecutive bytes, in order
Windows(payload, n) ==
    IF n > Len(payload) THEN <<>>
    ELSE [i \in 1..(Len(payload) - n + 1) |-> SubSeq(payload, i, i + n - 1)]

\* a scanner that compares each window with the signature as a set of bytes
WindowMatchesUnordered(window, signature) ==
    {window[i] : i \in DOMAIN window} = {signature[i] : i \in DOMAIN signature}

\* window == signature
WindowMatches(window, signature) == window = signature

check_malware_signatures(payload) ==
    \E k \in DOMAIN known_malware_signatures :
        LET signature == known_malware_signatures[k]
            w == Windows(payload, Len(signature))
        IN  \E i \in DOMAIN w : WindowMatches(w[i], signature)

----------------------------------------------------------------------------
(* Packet evaluation. *)

Entry(tracker, source) ==
    IF source \in DOMAIN tracker THEN tracker[source] ELSE <<>>

\* a tracker that starts an entry afresh once it is past the threshold
PushPort_reset(tracker, source, port) ==
    [ip \in DOMAIN tracker \cup {source} |->
        IF ip = source
        THEN IF Len(Entry(tracker, source)) > PORT_SCAN_THRESHOLD
             THEN <<port>>
             ELSE Append(Entry(tracker, source), port)
        ELSE tracker[ip]]

\* entry(source).or_insert_with(Vec::new) followed by push(port)
PushPort(tracker, source, port) ==
    [ip \in DOMAIN tracker \cup {source} |->
        IF ip = source THEN Append(Entry(tracker, source), port)
        ELSE tracker[ip]]

BlockedAlert(source, destination, proto) ==
    NetworkAlert("UnauthorizedAccess", "High", "Traffic from blocked IP",
                 source, destination, proto, NoValue)

IntrusionAlert(source, destination, port) ==
    NetworkAlert("Intrusion", "Critical", "Possible port scan",
                 source, destination, "TCP", port)

MalwareAlert(source, destination, proto) ==
    NetworkAlert("Malware", "Critical", "Malware signature detected",
                 source, destination, proto, NoValue)

\* What one call leaves behind: the returned Option<NetworkAlert> and the
\* fields of NetworkStats the call may write.
Outcome(alert, tracker, bandwidth, packets) ==
    [alert |-> alert, port_scan_attempts |-> tracker,
     bandwidth_usage |-> bandwidth, packet_count |-> packets]

Untouched(alert) ==
    Outcome(alert, port_scan_attempts, bandwidth_usage, packet_count)

\* self.blocked_ips.contains(&source)
IsBlocked(source) == source \in blocked_ips

\* a detector that fires only on the packet that crosses the threshold
ScanThresholdExceeded_once(entry) == Len(entry) = PORT_SCAN_THRESHOLD + 1

\* entry.len() > 10
ScanThresholdExceeded(entry) == Len(entry) > PORT_SCAN_THRESHOLD

\* a packet counter that starts again once it has reached the threshold
update_bandwidth_stats_windowed(tracker, bytes) ==
    Outcome(None, tracker, bandwidth_usage + bytes,
            IF packet_count >= PACKET_THRESHOLD THEN 0 ELSE packet_count + 1)

\* update_bandwidth_stats(bytes), on top of the tracker the call produced
update_bandwidth_stats(tracker, bytes) ==
    Outcome(None, tracker, bandwidth_usage + bytes, packet_count + 1)

\* the detectors in another order: the tracker is written before the
\* blocklist is looked at
Evaluate_scan_first(source, destination, proto, payload) ==
    LET is_tcp  == TcpPacket_new(payload)
        tracker == IF is_tcp
                   THEN PushPort(port_scan_attempts, source,
                                 tcp_get_destination(payload))
                   ELSE port_scan_attempts
    IN  IF is_tcp /\ ScanThresholdExceeded(tracker[source])
        THEN Outcome(Some(IntrusionAlert(source, destination,
                                         tcp_get_destination(payload))),
                     tracker, bandwidth_usage, packet_count)
        ELSE IF IsBlocked(source)
        THEN Outcome(Some(BlockedAlert(source, destination, proto)),
                     tracker, bandwidth_usage, packet_count)
        ELSE IF check_malware_signatures(payload)
        THEN Outcome(Some(MalwareAlert(source, destination, proto)),
                     tracker, bandwidth_usage, packet_count)
        ELSE update_bandwidth_stats(tracker, Len(payload))

\* the detectors in another order: the payload is scanned first
Evaluate_malware_first(source, destination, proto, payload) ==
    LET is_tcp  == TcpPacket_new(payload)
        tracker == IF is_tcp
                   THEN PushPort(port_scan_attempts, source,
                                 tcp_get_destination(payload))
                   ELSE port_scan_attempts
    IN  IF check_malware_signatures(payload)
        THEN Untouched(Some(MalwareAlert(source, destination, proto)))
        ELSE IF IsBlocked(source)
        THEN Untouched(Some(BlockedAlert(source, destination, proto)))
        ELSE IF is_tcp /\ ScanThresholdExceeded(tracker[source])
        THEN Outcome(Some(IntrusionAlert(source, destination,
                                         tcp_get_destination(payload))),
                     tracker, bandwidth_usage, packet_count)
        ELSE update_bandwidth_stats(tracker, Len(payload))

\* The body of analyze_packet for a decoded IPv4 packet: the blocklist, then
\* the port-scan tracker for a payload that parses as TCP, then the malware
\* scan, each returning early; the counters are reached only past all three.
Evaluate(source, destination, proto, payload) ==
    LET is_tcp  == TcpPacket_new(payload)
        tracker == IF is_tcp
                   THEN PushPort(port_scan_attempts, source,
                                 tcp_get_destination(payload))
                   ELSE port_scan_attempts
    IN  IF IsBlocked(source)
        THEN Untouched(Some(BlockedAlert(source, destination, proto)))
        ELSE IF is_tcp /\ ScanThresholdExceeded(tracker[source])
        THEN Outcome(Some(IntrusionAlert(source, destination,
                                         tcp_get_destination(payload))),
                     tracker, bandwidth_usage, packet_count)
        ELSE IF check_malware_signatures(payload)
        THEN Outcome(Some(MalwareAlert(source, destination, proto)),
                     tracker, bandwidth_usage, packet_count)
        ELSE update_bandwidth_stats(tracker, Len(payload))

\* an engine that counts a frame before it decodes it
analyze_packet_count_first(data) ==
    IF ~Decodes(data) THEN update_bandwidth_stats(port_scan_attempts, 0)
    ELSE LET ip_packet == EthernetPayload(data)
         IN  Evaluate(get_source(ip_packet), get_destination(ip_packet),
                      get_next_level_protocol(ip_packet),
                      Ipv4Payload(ip_packet))

analyze_packet(data) ==
    IF ~EthernetPacket_new(data) THEN Untouched(None)
    ELSE IF get_ethertype(data) # ETHERTYPE_IPV4 THEN Untouched(None)
    ELSE IF ~Ipv4Packet_new(EthernetPayload(data)) THEN Untouched(None)
    ELSE LET ip_packet == EthernetPayload(data)
         IN  Evaluate(get_source(ip_packet), get_destination(ip_packet),
                      get_next_level_protocol(ip_packet),
                      Ipv4Payload(ip_packet))

----------------------------------------------------------------------------
(* Frames offered to the engine. *)

IpA == <<10, 0, 0, 1>>

IpB == <<10, 0, 0, 2>>

IpDst == <<192, 168, 1, 1>>

PROTO_TCP == 6

PROTO_UDP == 17

ETHERTYPE_ARP == 2054

Zeros(n) == [i \in 1..n |-> 0]

EthernetHeader(ethertype) ==
    Zeros(12) \o <<ethertype \div 256, ethertype % 256>>

\* version 4, header length 5 words, total length covering the payload
Ipv4Header(source, destination, proto, payload_len) ==
    LET total == IPV4_HEADER_LEN + payload_len
    IN  <<69, 0, total \div 256, total % 256, 0, 0, 0, 0, 64, proto, 0, 0>>
        \o source \o destination

\* a transport header of TCP_HEADER_LEN bytes with the destination port in
\* bytes 2..3
TransportHeader(dest_port) ==
    <<4, 210, dest_port \div 256, dest_port % 256>> \o Zeros(TCP_HEADER_LEN - 4)

Frame(ethertype, source, proto, payload) ==
    EthernetHeader(ethertype)
    \o Ipv4Header(source, IpDst, proto, Len(payload)) \o payload

SigCmd == <<67, 77, 68, 58>>

\* payloads shorter than a TCP header: empty, "CMD:"
ShortPayloads == {<<>>, SigCmd}

ProbedPorts == {80, 443}

\* payloads that hold a transport header, with and without a signature behind
LongPayloads ==
    {TransportHeader(p) \o d : p \in ProbedPorts, d \in {<<>>, SigCmd}}

Sources == {IpA, IpB}

Ipv4Frames ==
    {Frame(ETHERTYPE_IPV4, s, pr, pl) :
        s \in Sources, pr \in {PROTO_TCP, PROTO_UDP},
        pl \in ShortPayloads \cup LongPayloads}

\* frames that do not decode: a 10-byte frame, a bare Ethernet header, an
\* IPv4 frame cut one byte short of its IP header, an ARP frame
UndecodableFrames ==
    LET f == Frame(ETHERTYPE_IPV4, IpA, PROTO_TCP, TransportHeader(80) \o SigCmd)
    IN  {SubSeq(f, 1, 10), SubSeq(f, 1, ETHERNET_HEADER_LEN),
         SubSeq(f, 1, ETHERNET_HEADER_LEN + IPV4_HEADER_LEN - 1),
         Frame(ETHERTYPE_ARP, IpA, PROTO_TCP, TransportHeader(80) \o SigCmd)}

Frames == Ipv4Frames \cup UndecodableFrames

----------------------------------------------------------------------------
(* Initial states. *)

\* op: the operation; arg: the frame, payload or clock reading it was given;
\* alert: the Option<NetworkAlert> it produced; ok: its Ok/Err or bool result
Last(op, arg, alert, ok) ==
    [op |-> op, arg |-> arg, alert |-> alert, ok |-> ok]

EmptyMap == <<>>

\* nine distinct ports probed by IpA
NinePorts == <<21, 22, 23, 25, 53, 110, 143, 445, 3389>>

\* NetworkStats::default(), and states the engine reaches from it that lie
\* too many packets away to be walked to: IpA nine probes away from nothing,
\* the packet counter at its threshold after a roll-up, and the byte
\* accumulator 20 bytes under 100 MB (5,263,156 packets of 19 bytes and one
\* of 16, none of them long enough to hold a TCP header); and IpA past the
\* threshold: ten probes counted, the eleventh answered with Intrusion.
Checkpoints ==
    { [packet_count |-> 0, bandwidth_usage |-> 0,
       port_scan_attempts |-> EmptyMap],
      [packet_count |-> 9, bandwidth_usage |-> 9 * TCP_HEADER_LEN,
       port_scan_attempts |-> [ip \in {IpA} |-> NinePorts]],
      [packet_count |-> 10, bandwidth_usage |-> 10 * TCP_HEADER_LEN,
       port_scan_attempts |-> [ip \in {IpA} |-> NinePorts \o <<80, 443>>]],
      [packet_count |-> PACKET_THRESHOLD, bandwidth_usage |-> 0,
       port_scan_attempts |-> EmptyMap],
      [packet_count |-> 5263157,
       bandwidth_usage |-> BANDWIDTH_THRESHOLD * BYTES_PER_MB - 20,
       port_scan_attempts |-> EmptyMap] }

\* RegistrationForm::new (Default): no status, no task spawned, and no
\* agent_config.json written
FormUnopened ==
    /\ registration_status = <<>>
    /\ tasks = <<>>
    /\ agent_config = <<>>

\* no scan_file call in progress
NoScan == [path |-> "", content |-> <<>>, pattern |-> 0]

\* the file monitor has not been started and its directory is empty
FileMonitorUnstarted ==
    /\ fm_pc = "unstarted"
    /\ files = EmptyMap
    /\ events = <<>>
    /\ scan = NoScan
    /\ alerts = <<>>
    /\ accepted = <<>>
    /\ failed_alerts = EmptyMap
    /\ clock = 0
    /\ writes = 0

InitStats ==
    /\ \E c \in Checkpoints :
          /\ packet_count = c.packet_count
          /\ bandwidth_usage = c.bandwidth_usage
          /\ port_scan_attempts = c.port_scan_attempts
    /\ connection_count = 0
    /\ known_ips = EmptyMap

InitEngine ==
    /\ alert_chan = <<>>
    /\ rx_open = TRUE
    /\ pc = "idle"
    /\ evaluated = 0
    /\ last = Last("new", <<>>, None, TRUE)
    /\ FileMonitorUnstarted
    /\ FormUnopened

\* NetworkMonitor::new: blocked_ips: Vec::new()
Init ==
    /\ blocked_ips = {}
    /\ InitStats
    /\ InitEngine

----------------------------------------------------------------------------
(* Operations. *)

\* an engine that adds to its blocklist the source of a packet it answered
\* with an alert
AnalyzePacket_autoblock ==
    /\ pc = "idle"
    /\ evaluated < MaxPackets
    /\ \E data \in Frames :
          LET r == analyze_packet(data)
          IN  /\ port_scan_attempts' = r.port_scan_attempts
              /\ bandwidth_usage' = r.bandwidth_usage
              /\ packet_count' = r.packet_count
              /\ last' = Last("analyze_packet", data, r.alert, TRUE)
              /\ blocked_ips' = IF r.alert # None
                                THEN blocked_ips \cup {r.alert[1].source_ip}
                                ELSE blocked_ips
    /\ evaluated' = evaluated + 1
    /\ UNCHANGED <<connection_count, known_ips, alert_chan, rx_open, pc>>
    /\ UNCHANGED fmvars
    /\ UNCHANGED guivars

\* an engine that opens a ConnectionInfo for the source of a decoded packet
AnalyzePacket_records_source ==
    /\ pc = "idle"
    /\ evaluated < MaxPackets
    /\ \E data \in Frames :
          LET r == analyze_packet(data)
          IN  /\ port_scan_attempts' = r.port_scan_attempts
              /\ bandwidth_usage' = r.bandwidth_usage
              /\ packet_count' = r.packet_count
              /\ last' = Last("analyze_packet", data, r.alert, TRUE)
              /\ known_ips' =
                    IF Decodes(data)
                    THEN LET source == get_source(EthernetPayload(data))
                         IN  [ip \in DOMAIN known_ips \cup {source} |->
                                IF ip \in DOMAIN known_ips THEN known_ips[ip]
                                ELSE [first_seen |-> 0, bytes_sent |-> 0,
                                      ports_accessed |-> <<>>]]
                    ELSE known_ips
    /\ evaluated' = evaluated + 1
    /\ UNCHANGED <<blocked_ips, connection_count, alert_chan, rx_open, pc>>
    /\ UNCHANGED fmvars
    /\ UNCHANGED guivars

\* a call of analyze_packet that does not wait for the monitor to be free
AnalyzePacket_unguarded ==
    /\ evaluated < MaxPackets
    /\ \E data \in Frames :
          LET r == analyze_packet(data)
          IN  /\ port_scan_attempts' = r.port_scan_attempts
              /\ bandwidth_usage' = r.bandwidth_usage
              /\ packet_count' = r.packet_count
              /\ last' = Last("analyze_packet", data, r.alert, TRUE)
    /\ evaluated' = evaluated + 1
    /\ UNCHANGED <<blocked_ips, connection_count, known_ips, alert_chan,
                   rx_open, pc>>
    /\ UNCHANGED fmvars
    /\ UNCHANGED guivars

\* One call of analyze_packet.  It borrows the monitor mutably, so it runs
\* only while no monitor_bandwidth future holds that borrow; it has no await
\* point and is one step.
AnalyzePacket ==
    /\ pc = "idle"
    /\ evaluated < MaxPackets
    /\ \E data \in Frames :
          LET r == analyze_packet(data)
          IN  /\ port_scan_attempts' = r.port_scan_attempts
              /\ bandwidth_usage' = r.bandwidth_usage
              /\ packet_count' = r.packet_count
              /\ last' = Last("analyze_packet", data, r.alert, TRUE)
    /\ evaluated' = evaluated + 1
    /\ UNCHANGED <<blocked_ips, connection_count, known_ips, alert_chan,
                   rx_open, pc>>
    /\ UNCHANGED fmvars
    /\ UNCHANGED guivars

BandwidthAlert ==
    NetworkAlert("Bandwidth", "Medium", "High bandwidth usage",
                 NoValue, NoValue, NoValue, NoValue)

\* a threshold test that also fires at exactly 100 MB
OverBandwidth_inclusive(bytes) == bytes >= BANDWIDTH_THRESHOLD * BYTES_PER_MB

\* bandwidth_mbps > 100.0, for a whole number of bytes below 2^53
OverBandwidth(bytes) == bytes > BANDWIDTH_THRESHOLD * BYTES_PER_MB

\* monitor_bandwidth is called and polled up to interval.tick().await
StartMonitorBandwidth ==
    /\ pc = "idle"
    /\ pc' = "tick"
    /\ last' = Last("monitor_bandwidth", <<>>, None, TRUE)
    /\ UNCHANGED <<blocked_ips, stats, alert_chan, rx_open, evaluated>>
    /\ UNCHANGED fmvars
    /\ UNCHANGED guivars

\* a pass that uses try_send: with the channel full the alert is dropped and
\* the pass goes on to the reset
Tick_try_send ==
    /\ pc = "tick"
    /\ IF ~OverBandwidth(bandwidth_usage)
       THEN /\ bandwidth_usage' = 0
            /\ last' = Last("tick", <<bandwidth_usage>>, None, TRUE)
            /\ UNCHANGED <<alert_chan, pc>>
       ELSE IF ~rx_open
       THEN /\ pc' = "idle"
            /\ last' = Last("tick", <<bandwidth_usage>>,
                            Some(BandwidthAlert), FALSE)
            /\ UNCHANGED <<alert_chan, bandwidth_usage>>
       ELSE IF Len(alert_chan) < ChanCap
       THEN /\ alert_chan' = Append(alert_chan, BandwidthAlert)
            /\ bandwidth_usage' = 0
            /\ last' = Last("tick", <<bandwidth_usage>>,
                            Some(BandwidthAlert), TRUE)
            /\ UNCHANGED pc
       ELSE /\ bandwidth_usage' = 0
            /\ last' = Last("tick", <<bandwidth_usage>>,
                            Some(BandwidthAlert), TRUE)
            /\ UNCHANGED <<alert_chan, pc>>
    /\ UNCHANGED <<blocked_ips, connection_count, packet_count, known_ips,
                   port_scan_attempts, rx_open, evaluated>>
    /\ UNCHANGED fmvars
    /\ UNCHANGED guivars

\* The interval fires: one pass of the loop body, as far as it gets without
\* waiting.  A send to a closed channel returns Err, and `?` leaves the
\* function before the reset; a send to a full channel waits.  last.arg is
\* the byte count the pass read, last.alert the alert it built, last.ok
\* whether monitor_bandwidth is still running (no Err returned).
Tick ==
    /\ pc = "tick"
    /\ IF ~OverBandwidth(bandwidth_usage)
       THEN /\ bandwidth_usage' = 0
            /\ last' = Last("tick", <<bandwidth_usage>>, None, TRUE)
            /\ UNCHANGED <<alert_chan, pc>>
       ELSE IF ~rx_open
       THEN /\ pc' = "idle"
            /\ last' = Last("tick", <<bandwidth_usage>>,
                            Some(BandwidthAlert), FALSE)
            /\ UNCHANGED <<alert_chan, bandwidth_usage>>
       ELSE IF Len(alert_chan) < ChanCap
       THEN /\ alert_chan' = Append(alert_chan, BandwidthAlert)
            /\ bandwidth_usage' = 0
            /\ last' = Last("tick", <<bandwidth_usage>>,
                            Some(BandwidthAlert), TRUE)
            /\ UNCHANGED pc
       ELSE /\ pc' = "send"
            /\ last' = Last("tick_blocked", <<bandwidth_usage>>,
                            Some(BandwidthAlert), TRUE)
            /\ UNCHANGED <<alert_chan, bandwidth_usage>>
    /\ UNCHANGED <<blocked_ips, connection_count, packet_count, known_ips,
                   port_scan_attempts, rx_open, evaluated>>
    /\ UNCHANGED fmvars
    /\ UNCHANGED guivars

\* The pending send completes once the channel has room, or fails once the
\* receiver is gone; the pass then goes on as in Tick.
SendResumes ==
    /\ pc = "send"
    /\ IF ~rx_open
       THEN /\ pc' = "idle"
            /\ last' = Last("tick_resumed", <<bandwidth_usage>>,
                            Some(BandwidthAlert), FALSE)
            /\ UNCHANGED <<alert_chan, bandwidth_usage>>
       ELSE /\ Len(alert_chan) < ChanCap
            /\ alert_chan' = Append(alert_chan, BandwidthAlert)
            /\ bandwidth_usage' = 0
            /\ pc' = "tick"
            /\ last' = Last("tick_resumed", <<bandwidth_usage>>,
                            Some(BandwidthAlert), TRUE)
    /\ UNCHANGED <<blocked_ips, connection_count, packet_count, known_ips,
                   port_scan_attempts, rx_open, evaluated>>
    /\ UNCHANGED fmvars
    /\ UNCHANGED guivars

\* The caller drops the monitor_bandwidth future at one of its await points,
\* which releases the monitor.
DropMonitorBandwidth ==
    /\ pc \in {"tick", "send"}
    /\ pc' = "idle"
    /\ last' = Last("drop", <<>>, None, TRUE)
    /\ UNCHANGED <<blocked_ips, stats, alert_chan, rx_open, evaluated>>
    /\ UNCHANGED fmvars
    /\ UNCHANGED guivars

\* The consumer takes the oldest alert out of the channel.
Receive ==
    /\ rx_open
    /\ alert_chan # <<>>
    /\ alert_chan' = Tail(alert_chan)
    /\ last' = Last("recv", <<>>, Some(Head(alert_chan)), TRUE)
    /\ UNCHANGED <<blocked_ips, stats, rx_open, pc, evaluated>>
    /\ UNCHANGED fmvars
    /\ UNCHANGED guivars

\* The consumer drops the receiver; what the channel buffered goes with it.
CloseReceiver ==
    /\ rx_open
    /\ rx_open' = FALSE
    /\ alert_chan' = <<>>
    /\ last' = Last("close", <<>>, None, TRUE)
    /\ UNCHANGED <<blocked_ips, stats, pc, evaluated>>
    /\ UNCHANGED fmvars
    /\ UNCHANGED guivars

\* Another holder of a Sender of the channel (the monitor's own alert_tx or a
\* clone of tx) puts an alert into it while it has room.
ForwardAlert ==
    /\ rx_open
    /\ Len(alert_chan) < ChanCap
    /\ alert_chan' = Append(alert_chan, MalwareAlert(IpA, IpDst, PROTO_TCP))
    /\ last' = Last("forward", <<>>, None, TRUE)
    /\ UNCHANGED <<blocked_ips, stats, rx_open, pc, evaluated>>
    /\ UNCHANGED fmvars
    /\ UNCHANGED guivars

----------------------------------------------------------------------------
(* Anomaly sweep. *)

TrafficSpikeAlert ==
    NetworkAlert("Anomaly", "High", "Traffic spike detected",
                 NoValue, NoValue, NoValue, NoValue)

PortAccessAlert(ip) ==
    NetworkAlert("Anomaly", "High", "Unusual port access pattern from IP",
                 ip, NoValue, NoValue, NoValue)

DataBurstAlert(ip) ==
    NetworkAlert("Anomaly", "High", "Data burst from IP",
                 ip, NoValue, NoValue, NoValue)

ConnectionCountAlert ==
    NetworkAlert("Anomaly", "Medium", "High connection count",
                 NoValue, NoValue, NoValue, NoValue)

\* info.ports_accessed.len() > 20
TooManyPorts(info) == Len(info.ports_accessed) > PORTS_ACCESSED_THRESHOLD

\* info.bytes_sent > 1_000_000 && (Utc::now() - info.first_seen) < TIME_WINDOW
DataBurst(info, now) ==
    /\ info.bytes_sent > BYTES_SENT_THRESHOLD
    /\ now - info.first_seen < TIME_WINDOW

RECURSIVE ScanKnownIps(_, _, _)
\* for (ip, info) in &self.stats.known_ips, from the i-th entry of the
\* enumeration on: both checks on one entry before the next entry
ScanKnownIps(order, i, now) ==
    IF i > Len(order) THEN None
    ELSE LET ip   == order[i]
             info == known_ips[ip]
         IN  IF TooManyPorts(info) THEN Some(PortAccessAlert(ip))
             ELSE IF DataBurst(info, now) THEN Some(DataBurstAlert(ip))
             ELSE ScanKnownIps(order, i + 1, now)

\* a sweep that looks at the tracked addresses before the packet counter
detect_anomalies_ips_first(now, order) ==
    LET found == ScanKnownIps(order, 1, now)
    IN  IF found # None THEN found
        ELSE IF packet_count > PACKET_THRESHOLD THEN Some(TrafficSpikeAlert)
        ELSE IF connection_count > CONN_THRESHOLD
        THEN Some(ConnectionCountAlert)
        ELSE None

\* order: the order in which the HashMap yields its entries
detect_anomalies(now, order) ==
    IF packet_count > PACKET_THRESHOLD THEN Some(TrafficSpikeAlert)
    ELSE LET found == ScanKnownIps(order, 1, now)
         IN  IF found # None THEN found
             ELSE IF connection_count > CONN_THRESHOLD
             THEN Some(ConnectionCountAlert)
             ELSE None

\* the enumerations of a map's keys
Orders(map) ==
    {o \in [1..Cardinality(DOMAIN map) -> DOMAIN map] :
        \A i, j \in DOMAIN o : i # j => o[i] # o[j]}

\* readings of Utc::now(), in seconds
Clock == {100}

\* One call of detect_anomalies; it borrows the monitor.
DetectAnomalies ==
    /\ pc = "idle"
    /\ \E now \in Clock, order \in Orders(known_ips) :
          last' = Last("detect_anomalies", <<now>>,
                       detect_anomalies(now, order), TRUE)
    /\ UNCHANGED <<blocked_ips, stats, alert_chan, rx_open, pc, evaluated>>
    /\ UNCHANGED fmvars
    /\ UNCHANGED guivars

----------------------------------------------------------------------------
(* The engine built by NetworkMonitor::new. *)

Next ==
    \/ AnalyzePacket
    \/ StartMonitorBandwidth
    \/ Tick
    \/ SendResumes
    \/ DropMonitorBandwidth
    \/ Receive
    \/ CloseReceiver
    \/ ForwardAlert
    \/ DetectAnomalies

Spec == Init /\ [][Next]_vars

----------------------------------------------------------------------------
(* The same engine with a blocklist configured.  new() leaves blocked_ips  *)
(* empty and nothing writes it; analyze_packet reads whatever the field    *)
(* holds.  A blocked source has no tracker entry: the list is static.      *)

BlocklistConfigs == {{}, {IpB}}

InitConfigured ==
    /\ blocked_ips \in BlocklistConfigs
    /\ InitStats
    /\ InitEngine

SpecConfigured == InitConfigured /\ [][Next]_vars

----------------------------------------------------------------------------
(* Construction.  NetworkMonitor::new lists the capture devices, takes the *)
(* first and opens it; each of the three steps can fail, and `?` returns   *)
(* the error before the struct is built.                                   *)

MaxDevices == 2

\* what the host offers: Device::list() succeeds or not, the number of
\* devices it lists, and whether Capture::open succeeds on the first
Hosts == [list_ok : BOOLEAN, devices : 0..MaxDevices, open_ok : BOOLEAN]

\* the program before NetworkMonitor::new is called: the channel exists (its
\* Sender is an argument of new), the engine does not
InitStartup ==
    /\ blocked_ips = {}
    /\ bandwidth_usage = 0
    /\ packet_count = 0
    /\ port_scan_attempts = EmptyMap
    /\ connection_count = 0
    /\ known_ips = EmptyMap
    /\ alert_chan = <<>>
    /\ rx_open = TRUE
    /\ pc = "unbuilt"
    /\ evaluated = 0
    /\ last = Last("start", <<>>, None, TRUE)
    /\ FileMonitorUnstarted
    /\ FormUnopened

\* a constructor that falls back to a default device when none is listed
NewMonitor_default_device ==
    /\ pc = "unbuilt"
    /\ \E host \in Hosts :
          /\ pc' = IF host.list_ok /\ host.open_ok THEN "idle" ELSE "failed"
          /\ last' = Last("NetworkMonitor::new", host, None,
                          host.list_ok /\ host.open_ok)
    /\ UNCHANGED <<blocked_ips, stats, alert_chan, rx_open, evaluated>>
    /\ UNCHANGED fmvars
    /\ UNCHANGED guivars

\* NetworkMonitor::new.  Ok(Self) carries NetworkStats::default() and an
\* empty blocklist, which is what the fields hold before; Err builds nothing.
NewMonitor ==
    /\ pc = "unbuilt"
    /\ \E host \in Hosts :
          LET built == host.list_ok /\ host.devices > 0 /\ host.open_ok IN
          /\ pc' = IF built THEN "idle" ELSE "failed"
          /\ last' = Last("NetworkMonitor::new", host, None, built)
    /\ UNCHANGED <<blocked_ips, stats, alert_chan, rx_open, evaluated>>
    /\ UNCHANGED fmvars
    /\ UNCHANGED guivars

\* the program from before construction, together with the built engine of
\* Spec at its checkpoints
NextStartup == NewMonitor \/ Next

SpecStartup == (InitStartup \/ Init) /\ [][NextStartup]_vars

----------------------------------------------------------------------------
(* detect_anomalies over NetworkStats snapshots.  No operation writes      *)
(* known_ips or connection_count, so the snapshots are drawn here.         *)

PortList(n) == [i \in 1..n |-> 1000 + i]

\* ConnectionInfo; last_seen and bytes_received are never read
ConnectionInfos ==
    [first_seen : {40, 41},
     bytes_sent : {BYTES_SENT_THRESHOLD, BYTES_SENT_THRESHOLD + 1},
     ports_accessed : {PortList(PORTS_ACCESSED_THRESHOLD),
                       PortList(PORTS_ACCESSED_THRESHOLD + 1)}]

KnownIpsSnapshots ==
    UNION {[ips -> ConnectionInfos] : ips \in SUBSET Sources}

InitSnapshot ==
    /\ blocked_ips = {}
    /\ bandwidth_usage = 0
    /\ port_scan_attempts = EmptyMap
    /\ packet_count \in {0, PACKET_THRESHOLD, PACKET_THRESHOLD + 1}
    /\ connection_count \in {0, CONN_THRESHOLD, CONN_THRESHOLD + 1}
    /\ known_ips \in KnownIpsSnapshots
    /\ InitEngine

NextSnapshot == DetectAnomalies

SpecSnapshot == InitSnapshot /\ [][NextSnapshot]_vars

----------------------------------------------------------------------------
(* check_malware_signatures over payloads. *)

\* 'C', 'M', 'D', ':', 'Z'
ScanBytes == {67, 77, 68, 58, 90}

ScanPayloads == UNION {[1..n -> ScanBytes] : n \in 0..MaxScanLen}

\* the payload to scan is drawn here
InitScan ==
    /\ blocked_ips = {}
    /\ bandwidth_usage = 0
    /\ packet_count = 0
    /\ port_scan_attempts = EmptyMap
    /\ connection_count = 0
    /\ known_ips = EmptyMap
    /\ alert_chan = <<>>
    /\ rx_open = TRUE
    /\ pc = "idle"
    /\ evaluated = 0
    /\ \E payload \in ScanPayloads : last = Last("payload", payload, None, TRUE)
    /\ FileMonitorUnstarted
    /\ FormUnopened

ScanPayload ==
    /\ last.op = "payload"
    /\ last' = Last("check_malware_signatures", last.arg, None,
                    check_malware_signatures(last.arg))
    /\ UNCHANGED <<blocked_ips, stats, alert_chan, rx_open, pc, evaluated>>
    /\ UNCHANGED fmvars
    /\ UNCHANGED guivars

NextScan == ScanPayload

SpecScan == InitScan /\ [][NextScan]_vars

----------------------------------------------------------------------------
(* The file monitor (src/file_monitor/src/lib.rs): FileMonitor watches a    *)
(* directory, scans every file a Create or Modify event names, and hands    *)
(* one Alert per matching pattern to Communication::send_alert.             *)
(*                                                                         *)
(* A text is a sequence of items, each a word of one kind written in upper  *)
(* or lower case; a pattern is named after the regex it stands for.         *)

\* files written into the directory in one behaviour
MaxWrites == 1

\* seconds the clock advances in one behaviour
MaxClock == 1

Item(kind, upper) == [kind |-> kind, upper |-> upper]

\* the regexes of FileMonitor::new, in the order of the vector
patterns == <<"email", "ssn", "card16", "password", "card13_16", "api_key">>

\* Regex::is_match on one item.  The e-mail regex spells its classes with
\* A-Z only and carries no (?i); the password and key regexes carry (?i);
\* a 16-digit card number also satisfies the 13-to-16-digit regex.
Matches(pattern, item) ==
    CASE pattern = "email"     -> item.kind = "email" /\ item.upper
      [] pattern = "ssn"       -> item.kind = "ssn"
      [] pattern = "card16"    -> item.kind = "card"
      [] pattern = "password"  -> item.kind = "password"
      [] pattern = "card13_16" -> item.kind = "card"
      [] pattern = "api_key"   -> item.kind = "api_key"

\* pattern.find(&content): the leftmost match, if any
find(pattern, content) ==
    LET hits == {i \in DOMAIN content : Matches(pattern, content[i])}
    IN  IF hits = {} THEN None
        ELSE Some(content[CHOOSE i \in hits : \A j \in hits : i <= j])

\* "Email: test@example.com\nSSN: 123-45-6789\nAPI_KEY=secretkey123"
SensitiveTxt ==
    <<Item("email", FALSE), Item("ssn", FALSE), Item("api_key", TRUE)>>

Contents ==
    {SensitiveTxt, <<Item("email", TRUE)>>, <<Item("text", FALSE)>>}

Paths == {"sensitive.txt", "notes.txt"}

DeviceId == "device-1"

Alert(file_path, pattern_type, matched_content, timestamp) ==
    [device_id |-> DeviceId, file_path |-> file_path,
     pattern_type |-> pattern_type, matched_content |-> matched_content,
     timestamp |-> timestamp]

Event(kind, path) == [kind |-> kind, path |-> path]

\* what the POST of send_alert comes back with: a success status, another
\* status, or no response at all
Responses == {"success", "status_error", "request_error"}

\* format!("alert_{}_{}.json", device_id, Utc::now().timestamp())
FileName(device_id, now) == <<"alert", device_id, now>>

\* tokio::fs::write(path, ..): creates the file or replaces its content
WriteTo(dir, name, content) ==
    [n \in DOMAIN dir \cup {name} |-> IF n = name THEN content ELSE dir[n]]

\* store_failed_alert; stored is whether create_dir_all and write succeed
store_failed_alert(spool, alert, now, stored) ==
    [ok |-> stored,
     failed_alerts |-> IF stored
                       THEN WriteTo(spool, FileName(alert.device_id, now),
                                    alert)
                       ELSE spool]

\* send_alert: `?` on the request and on store_failed_alert return before
\* alerts.push
send_alert(alert, response, now, stored) ==
    IF response = "request_error"
    THEN [ok |-> FALSE, alerts |-> alerts, accepted |-> accepted,
          failed_alerts |-> failed_alerts]
    ELSE IF response = "success"
    THEN [ok |-> TRUE, alerts |-> Append(alerts, alert),
          accepted |-> Append(accepted, alert),
          failed_alerts |-> failed_alerts]
    ELSE LET r == store_failed_alert(failed_alerts, alert, now, stored)
         IN  [ok |-> r.ok,
              alerts |-> IF r.ok THEN Append(alerts, alert) ELSE alerts,
              accepted |-> accepted,
              failed_alerts |-> r.failed_alerts]

\* main starts the file monitor only: no NetworkMonitor is built.  The
\* directory is empty or already holds the sensitive file.
InitFiles ==
    /\ blocked_ips = {}
    /\ bandwidth_usage = 0
    /\ packet_count = 0
    /\ port_scan_attempts = EmptyMap
    /\ connection_count = 0
    /\ known_ips = EmptyMap
    /\ alert_chan = <<>>
    /\ rx_open = TRUE
    /\ pc = "unbuilt"
    /\ evaluated = 0
    /\ last = Last("start", <<>>, None, TRUE)
    /\ fm_pc = "unstarted"
    /\ files \in {EmptyMap, [p \in {"sensitive.txt"} |-> SensitiveTxt]}
    /\ events = <<>>
    /\ scan = NoScan
    /\ alerts = <<>>
    /\ accepted = <<>>
    /\ failed_alerts = EmptyMap
    /\ clock = 0
    /\ writes = 0
    /\ FormUnopened

\* start_monitoring up to its first rx.recv().await.  recommended_watcher
\* and watch can fail, and `?` returns.  What a fresh watch reports about
\* files already in the directory is the platform's: inotify reports
\* nothing, FSEvents may still report a write made shortly before.
StartMonitoring ==
    /\ fm_pc = "unstarted"
    /\ \E watch_ok \in BOOLEAN, replay \in BOOLEAN :
          IF ~watch_ok
          THEN fm_pc' = "stopped" /\ events' = events
          ELSE /\ fm_pc' = "recv"
               /\ IF replay
                  THEN \E order \in Orders(files) :
                          events' = [i \in DOMAIN order |->
                                        Event("Create", order[i])]
                  ELSE events' = events
    /\ UNCHANGED <<files, scan, alerts, accepted, failed_alerts, clock,
                   writes>>
    /\ UNCHANGED netvars
    /\ UNCHANGED guivars

\* Some process writes a file into the directory.  A running watcher's
\* callback sends the events of the write into the channel: the creation or
\* modification, and the closing of the file.
WriteFile ==
    /\ writes < MaxWrites
    /\ \E path \in Paths, content \in Contents :
          /\ files' = WriteTo(files, path, content)
          /\ events' = IF fm_pc \in {"recv", "scan"}
                       THEN events \o
                            <<Event(IF path \in DOMAIN files
                                    THEN "Modify" ELSE "Create", path),
                              Event("Access", path)>>
                       ELSE events
    /\ writes' = writes + 1
    /\ UNCHANGED <<fm_pc, scan, alerts, accepted, failed_alerts, clock>>
    /\ UNCHANGED netvars
    /\ UNCHANGED guivars

\* rx.recv() returns an event; for a Create or Modify event scan_file is
\* entered and the file is read (ContentScanner::scan, scan_text).
RecvEvent ==
    /\ fm_pc = "recv"
    /\ events # <<>>
    /\ LET event == Head(events)
       IN  /\ events' = Tail(events)
           /\ IF event.kind \in {"Create", "Modify"}
              THEN /\ fm_pc' = "scan"
                   /\ scan' = [path |-> event.path,
                               content |-> files[event.path],
                               pattern |-> 1]
              ELSE UNCHANGED <<fm_pc, scan>>
    /\ UNCHANGED <<files, alerts, accepted, failed_alerts, clock, writes>>
    /\ UNCHANGED netvars
    /\ UNCHANGED guivars

\* scan_file goes on to the next pattern that matches and awaits send_alert
\* for it; an Err leaves scan_file (start_monitoring logs it), and past the
\* last pattern the loop is back at rx.recv().  last.arg is the alert handed
\* to send_alert and last.ok whether it returned Ok.
ScanStep ==
    /\ fm_pc = "scan"
    /\ LET hits == {k \in scan.pattern..Len(patterns) :
                       find(patterns[k], scan.content) # None}
       IN  IF hits = {}
           THEN /\ fm_pc' = "recv"
                /\ scan' = NoScan
                /\ last' = Last("scan_file", scan.path, None, TRUE)
                /\ UNCHANGED <<alerts, accepted, failed_alerts>>
           ELSE LET k == CHOOSE i \in hits : \A j \in hits : i <= j
                    alert == Alert(scan.path, patterns[k],
                                   find(patterns[k], scan.content)[1], clock)
                IN  \E response \in Responses, stored \in BOOLEAN :
                       LET r == send_alert(alert, response, clock, stored)
                       IN  /\ alerts' = r.alerts
                           /\ accepted' = r.accepted
                           /\ failed_alerts' = r.failed_alerts
                           /\ last' = Last("send_alert", alert, None, r.ok)
                           /\ IF r.ok
                              THEN /\ scan' = [scan EXCEPT !.pattern = k + 1]
                                   /\ UNCHANGED fm_pc
                              ELSE /\ fm_pc' = "recv"
                                   /\ scan' = NoScan
    /\ UNCHANGED <<files, events, clock, writes>>
    /\ UNCHANGED <<blocked_ips, stats, alert_chan, rx_open, pc, evaluated>>
    /\ UNCHANGED guivars

\* a second passes
ClockTick ==
    /\ clock < MaxClock
    /\ clock' = clock + 1
    /\ UNCHANGED <<fm_pc, files, events, scan, alerts, accepted,
                   failed_alerts, writes>>
    /\ UNCHANGED netvars
    /\ UNCHANGED guivars

NextFiles ==
    \/ StartMonitoring
    \/ WriteFile
    \/ RecvEvent
    \/ ScanStep
    \/ ClockTick

SpecFiles == InitFiles /\ [][NextFiles]_vars

----------------------------------------------------------------------------
(* The registration form of the GUI (src/gui/src/registration.rs).  show   *)
(* draws one frame; a click on Register sets the status to InProgress and  *)
(* spawns a task that submits the form and saves the credentials.  The     *)
(* task works on a clone of the form, its value is the RegistrationStatus  *)
(* it computed, and the JoinHandle is dropped at once.                     *)

\* clicks on Register in one behaviour
MaxClicks == 2

\* enum RegistrationStatus
Success(device_id) == [tag |-> "Success", value |-> device_id]

Error(message) == [tag |-> "Error", value |-> message]

InProgress == [tag |-> "InProgress", value |-> NoValue]

\* RegistrationResponse.device_id
ResponseDeviceId == "device-7"

\* a spawned task: the await it is at, and the value it ended with
Task(at, result) == [pc |-> at, result |-> result]

\* the task at position i moves on
Advance(i, task) == [tasks EXCEPT ![i] = task]

InitForm ==
    /\ blocked_ips = {}
    /\ bandwidth_usage = 0
    /\ packet_count = 0
    /\ port_scan_attempts = EmptyMap
    /\ connection_count = 0
    /\ known_ips = EmptyMap
    /\ alert_chan = <<>>
    /\ rx_open = TRUE
    /\ pc = "unbuilt"
    /\ evaluated = 0
    /\ last = Last("start", <<>>, None, TRUE)
    /\ FileMonitorUnstarted
    /\ FormUnopened

\* One call of show.  The status is drawn first and decides the returned
\* `completed`; then a click sets InProgress and spawns the task.  last.arg
\* is whether Register was clicked, last.ok the returned bool.
ShowForm ==
    /\ \E clicked \in BOOLEAN :
          /\ clicked => Len(tasks) < MaxClicks
          /\ last' = Last("show", <<clicked>>, None,
                          /\ registration_status # None
                          /\ registration_status[1].tag = "Success")
          /\ IF clicked
             THEN /\ registration_status' = Some(InProgress)
                  /\ tasks' = Append(tasks, Task("send", NoValue))
             ELSE UNCHANGED <<registration_status, tasks>>
    /\ UNCHANGED agent_config
    /\ UNCHANGED <<blocked_ips, stats, alert_chan, rx_open, pc, evaluated>>
    /\ UNCHANGED fmvars

\* submit_registration: the POST completes; `?` turns a request error into
\* the task's Error value
SubmitSends ==
    /\ \E i \in DOMAIN tasks, ok \in BOOLEAN :
          /\ tasks[i].pc = "send"
          /\ tasks' = Advance(i, IF ok THEN Task("json", NoValue)
                                 ELSE Task("done", Error("request")))
          /\ last' = Last("task", <<i>>, None, TRUE)
    /\ UNCHANGED <<registration_status, agent_config>>
    /\ UNCHANGED <<blocked_ips, stats, alert_chan, rx_open, pc, evaluated>>
    /\ UNCHANGED fmvars

\* submit_registration: the body is read as a RegistrationResponse
SubmitDecodes ==
    /\ \E i \in DOMAIN tasks, ok \in BOOLEAN :
          /\ tasks[i].pc = "json"
          /\ tasks' = Advance(i, IF ok THEN Task("write", NoValue)
                                 ELSE Task("done", Error("decode")))
          /\ last' = Last("task", <<i>>, None, TRUE)
    /\ UNCHANGED <<registration_status, agent_config>>
    /\ UNCHANGED <<blocked_ips, stats, alert_chan, rx_open, pc, evaluated>>
    /\ UNCHANGED fmvars

\* save_credentials writes agent_config.json, and the task ends with
\* Success(device_id), or with Error when the write fails.  The value goes
\* to the dropped JoinHandle: nothing assigns it to registration_status.
SaveCredentials ==
    /\ \E i \in DOMAIN tasks, ok \in BOOLEAN :
          /\ tasks[i].pc = "write"
          /\ tasks' = Advance(i, IF ok
                                 THEN Task("done", Success(ResponseDeviceId))
                                 ELSE Task("done", Error("write")))
          /\ agent_config' = IF ok THEN Some(ResponseDeviceId)
                             ELSE agent_config
          /\ last' = Last("task", <<i>>, None, TRUE)
    /\ UNCHANGED registration_status
    /\ UNCHANGED <<blocked_ips, stats, alert_chan, rx_open, pc, evaluated>>
    /\ UNCHANGED fmvars

NextForm ==
    \/ ShowForm
    \/ SubmitSends
    \/ SubmitDecodes
    \/ SaveCredentials

SpecForm == InitForm /\ [][NextForm]_vars

----------------------------------------------------------------------------
(* Properties. *)

\* the fields analyze_packet decodes from a frame
FrameSource(data) == get_source(EthernetPayload(data))

FrameProtocol(data) == get_next_level_protocol(EthernetPayload(data))

FramePayload(data) == Ipv4Payload(EthernetPayload(data))

\* a step that is one call of analyze_packet, on the frame last'.arg
AnalyzeStep == evaluated' # evaluated

\* the state right after a call of analyze_packet on a frame that decoded
AfterDecoded == last.op = "analyze_packet" /\ Decodes(last.arg)

AlertIs(alert, type, sev) ==
    /\ Len(alert) = 1
    /\ alert[1].alert_type = type
    /\ alert[1].severity = sev

Distinct(ports) == {ports[i] : i \in DOMAIN ports}

\* C1: a decoded packet from a blocked source returns exactly one alert,
\* UnauthorizedAccess/High, built from the addresses and the protocol alone
\* whatever the payload holds, and leaves the port-scan tracker as it was.
C1_BlockedSourceOnlyBlockedAlert ==
    [][(AnalyzeStep /\ Decodes(last'.arg)
          /\ FrameSource(last'.arg) \in blocked_ips)
        => /\ AlertIs(last'.alert, "UnauthorizedAccess", "High")
           /\ last'.alert[1].source_ip = FrameSource(last'.arg)
           /\ last'.alert[1].protocol = FrameProtocol(last'.arg)
           /\ last'.alert[1].port = NoValue
           /\ port_scan_attempts' = port_scan_attempts]_vars

\* C1 witness: a blocked source sent a packet that parses as TCP and carries
\* a signature, and the call returned UnauthorizedAccess.
C1_Witness ==
    /\ AfterDecoded
    /\ FrameSource(last.arg) \in blocked_ips
    /\ TcpPacket_new(FramePayload(last.arg))
    /\ check_malware_signatures(FramePayload(last.arg))
    /\ AlertIs(last.alert, "UnauthorizedAccess", "High")

\* C2 as claimed: a TCP packet from a source that is not blocked yields
\* Intrusion/Critical when it goes to a new port and the source has then
\* probed 11 distinct ports or more, and yields no Intrusion alert while the
\* source has probed fewer than 11 distinct ports.
C2_IntrusionIffElevenDistinctPorts ==
    (/\ AfterDecoded
     /\ FrameProtocol(last.arg) = PROTO_TCP
     /\ TcpPacket_new(FramePayload(last.arg))
     /\ FrameSource(last.arg) \notin blocked_ips)
    => LET entry == port_scan_attempts[FrameSource(last.arg)]
           before == SubSeq(entry, 1, Len(entry) - 1)
           port == tcp_get_destination(FramePayload(last.arg))
       IN  /\ (port \notin Distinct(before)
                 /\ Cardinality(Distinct(entry)) > PORT_SCAN_THRESHOLD)
              => AlertIs(last.alert, "Intrusion", "Critical")
           /\ Cardinality(Distinct(entry)) <= PORT_SCAN_THRESHOLD
              => ~AlertIs(last.alert, "Intrusion", "Critical")

\* C3 as claimed: every decoded packet adds one to packet_count and its
\* payload length to bandwidth_usage, whatever the detectors returned.
C3_AccountingOnEveryDecodedPacket ==
    [][(AnalyzeStep /\ Decodes(last'.arg))
        => /\ packet_count' = packet_count + 1
           /\ bandwidth_usage' =
                 bandwidth_usage + Len(FramePayload(last'.arg))]_vars

\* C4: one call returns at most one alert, the first in the order blocked
\* source, port scan, malware: UnauthorizedAccess for a blocked source;
\* else Intrusion when the packet was appended to the tracker and the entry
\* is past the threshold, signature or not; else Malware when the payload
\* holds a signature; else none.
C4_FirstAlertInFixedOrder ==
    AfterDecoded
    => LET source == FrameSource(last.arg)
           payload == FramePayload(last.arg)
           scanned == /\ TcpPacket_new(payload)
                      /\ Len(Entry(port_scan_attempts, source))
                            > PORT_SCAN_THRESHOLD
       IN  /\ Len(last.alert) <= 1
           /\ IF source \in blocked_ips
              THEN AlertIs(last.alert, "UnauthorizedAccess", "High")
              ELSE IF scanned
              THEN AlertIs(last.alert, "Intrusion", "Critical")
              ELSE IF check_malware_signatures(payload)
              THEN AlertIs(last.alert, "Malware", "Critical")
              ELSE last.alert = None

\* C4 witness: the packet that took its source past the threshold carried a
\* signature and the call returned Intrusion.
C4_Witness ==
    /\ AfterDecoded
    /\ check_malware_signatures(FramePayload(last.arg))
    /\ Len(Entry(port_scan_attempts, FrameSource(last.arg)))
          = PORT_SCAN_THRESHOLD + 1
    /\ AlertIs(last.alert, "Intrusion", "Critical")

\* C5 as claimed: after every pass of the roll-up loop that has ended,
\* bandwidth_usage is zero, whether or not the threshold was crossed and
\* whether or not an alert went out.
C5_ZeroAfterEveryTick ==
    last.op \in {"tick", "tick_resumed"} => bandwidth_usage = 0

\* the signature occurs in the payload at some offset, byte for byte
Occurs(signature, payload) ==
    \E off \in 0..(Len(payload) - Len(signature)) :
        \A j \in 1..Len(signature) : payload[off + j] = signature[j]

\* C6: the scanner answers true exactly when one of the configured
\* signatures occurs in the payload as a contiguous run in the signature's
\* order; "CMD" (a signature without its last byte), "DMC:" (its bytes
\* reordered) and payloads shorter than the shortest signature do not match.
C6_MatchIffContiguousSignature ==
    last.op = "check_malware_signatures"
    => /\ last.ok <=> \E k \in DOMAIN load_malware_signatures :
                          Occurs(load_malware_signatures[k], last.arg)
       /\ last.arg = <<67, 77, 68>> => ~last.ok
       /\ last.arg = <<68, 77, 67, 58>> => ~last.ok
       /\ (\A k \in DOMAIN load_malware_signatures :
              Len(last.arg) < Len(load_malware_signatures[k])) => ~last.ok

\* C6 witness: the scanner matched a payload that ends in "CMD:".
C6_Witness ==
    /\ last.op = "check_malware_signatures"
    /\ last.ok
    /\ Len(last.arg) >= 4
    /\ SubSeq(last.arg, Len(last.arg) - 3, Len(last.arg)) = SigCmd

\* C7 as claimed: a decoded packet whose protocol field is not TCP leaves
\* port_scan_attempts as it was and yields no Intrusion alert.
C7_PortScanOnlyForTcp ==
    [][(AnalyzeStep /\ Decodes(last'.arg)
          /\ FrameProtocol(last'.arg) # PROTO_TCP)
        => /\ port_scan_attempts' = port_scan_attempts
           /\ ~AlertIs(last'.alert, "Intrusion", "Critical")]_vars

AfterSweep == last.op = "detect_anomalies"

\* C8: with packet_count over 10000 the sweep returns the traffic-spike
\* alert, Anomaly/High, whatever known_ips and connection_count hold.
C8_TrafficSpikeFirst ==
    (AfterSweep /\ packet_count > PACKET_THRESHOLD)
    => /\ AlertIs(last.alert, "Anomaly", "High")
       /\ last.alert[1].description = "Traffic spike detected"
       /\ last.alert[1].source_ip = NoValue

\* C8 witness: the sweep returned the traffic-spike alert although a tracked
\* address has more than 20 ports and connection_count is over 100.
C8_Witness ==
    /\ AfterSweep
    /\ packet_count > PACKET_THRESHOLD
    /\ connection_count > CONN_THRESHOLD
    /\ \E ip \in DOMAIN known_ips : TooManyPorts(known_ips[ip])
    /\ last.alert = Some(TrafficSpikeAlert)

\* C9 as claimed: the sweep returns the first satisfied check in the order
\* packet count, port access of any tracked address, data burst of any
\* tracked address, connection count.
C9_FirstSatisfiedCheckInOrder ==
    AfterSweep
    => LET now == last.arg[1]
           ips == DOMAIN known_ips
       IN  IF packet_count > PACKET_THRESHOLD
           THEN last.alert = Some(TrafficSpikeAlert)
           ELSE IF \E ip \in ips : TooManyPorts(known_ips[ip])
           THEN \E ip \in ips : /\ TooManyPorts(known_ips[ip])
                                /\ last.alert = Some(PortAccessAlert(ip))
           ELSE IF \E ip \in ips : DataBurst(known_ips[ip], now)
           THEN \E ip \in ips : /\ DataBurst(known_ips[ip], now)
                                /\ last.alert = Some(DataBurstAlert(ip))
           ELSE IF connection_count > CONN_THRESHOLD
           THEN last.alert = Some(ConnectionCountAlert)
           ELSE last.alert = None

\* C10: a frame that does not decode yields no alert, leaves every field of
\* NetworkStats as it was, and leaves the engine free for the next frame.
C10_UndecodableFrameChangesNothing ==
    [][(AnalyzeStep /\ ~Decodes(last'.arg))
        => /\ last'.alert = None
           /\ packet_count' = packet_count
           /\ bandwidth_usage' = bandwidth_usage
           /\ connection_count' = connection_count
           /\ known_ips' = known_ips
           /\ port_scan_attempts' = port_scan_attempts
           /\ pc' = "idle"
           /\ UNCHANGED <<blocked_ips, alert_chan, rx_open>>]_vars

\* C10 witness: a 10-byte frame was handed to analyze_packet after an
\* earlier frame, and the call returned None.
C10_Witness ==
    /\ last.op = "analyze_packet"
    /\ Len(last.arg) = 10
    /\ ~Decodes(last.arg)
    /\ evaluated = 2
    /\ last.alert = None

\* a pass of the roll-up loop has ended: in one step, or after waiting for
\* room in the channel
PassEnded == last.op \in {"tick", "tick_resumed"}

\* C11 as claimed: a send that fails does not stop the roll-up: after it
\* monitor_bandwidth is still running and waits for its next tick.
C11_RollupSurvivesFailedSend ==
    (PassEnded /\ ~last.ok) => pc = "tick"

\* a step in which the interval fires
TickStep == pc = "tick" /\ last'.op \in {"tick", "tick_blocked"}

\* C12: a pass builds a Bandwidth/Medium alert and hands it to tx.send
\* exactly when the bytes accumulated since the last reset are more than
\* 100,000,000; at exactly 100,000,000 it builds none; with the channel open
\* and not full that alert, and only that one, enters the channel.
C12_AlertIffOverHundredMillion ==
    [][TickStep
        => /\ last'.alert # None <=> bandwidth_usage > 100000000
           /\ last'.alert # None => AlertIs(last'.alert, "Bandwidth", "Medium")
           /\ bandwidth_usage = 100000000
                => (last'.alert = None /\ alert_chan' = alert_chan)
           /\ \/ alert_chan' = alert_chan
              \/ /\ bandwidth_usage > 100000000
                 /\ alert_chan' = Append(alert_chan, last'.alert[1])
           /\ (bandwidth_usage > 100000000 /\ rx_open
                 /\ Len(alert_chan) < ChanCap)
                => alert_chan' = Append(alert_chan, last'.alert[1])]_vars

\* C12 witness: a pass read exactly 100,000,000 bytes and built no alert.
C12_Witness ==
    /\ last.op = "tick"
    /\ last.arg = <<100000000>>
    /\ last.alert = None
    /\ bandwidth_usage = 0

\* the alerts the engine itself puts on the channel
EngineAlerts == {BandwidthAlert}

\* C13: when the device list cannot be read, is empty, or the first device
\* cannot be opened, NetworkMonitor::new returns Err and no engine exists:
\* from then on no packet is evaluated, NetworkStats stays at its default and
\* the engine puts no alert on the channel.
C13_NoDeviceNoEngine ==
    /\ (/\ last.op = "NetworkMonitor::new"
        /\ (~last.arg.list_ok \/ last.arg.devices = 0 \/ ~last.arg.open_ok))
          => (pc = "failed" /\ ~last.ok)
    /\ pc = "failed"
          => /\ evaluated = 0
             /\ bandwidth_usage = 0
             /\ packet_count = 0
             /\ connection_count = 0
             /\ port_scan_attempts = EmptyMap
             /\ known_ips = EmptyMap
             /\ \A i \in 1..Len(alert_chan) : alert_chan[i] \notin EngineAlerts

\* C13 witness: the host lists no device (the listing itself succeeded) and
\* new has returned Err.
C13_Witness ==
    /\ last.op = "NetworkMonitor::new"
    /\ last.arg.list_ok
    /\ last.arg.devices = 0
    /\ pc = "failed"
    /\ ~last.ok

IsPrefix(s, t) == Len(s) <= Len(t) /\ \A i \in 1..Len(s) : s[i] = t[i]

\* C15: a TCP packet (protocol 6, whole TCP header) from a source that is
\* not blocked appends its destination port to that source's tracker entry
\* and changes no other entry; and in every step of every operation each
\* entry stays and keeps what it held, whatever its length.
C15_TrackerOnlyGrows ==
    [][/\ \A ip \in DOMAIN port_scan_attempts :
             /\ ip \in DOMAIN port_scan_attempts'
             /\ IsPrefix(port_scan_attempts[ip], port_scan_attempts'[ip])
       /\ (/\ AnalyzeStep
           /\ Decodes(last'.arg)
           /\ FrameProtocol(last'.arg) = PROTO_TCP
           /\ TcpPacket_new(FramePayload(last'.arg))
           /\ FrameSource(last'.arg) \notin blocked_ips)
            => LET s == FrameSource(last'.arg)
                   port == tcp_get_destination(FramePayload(last'.arg))
               IN  /\ DOMAIN port_scan_attempts'
                         = DOMAIN port_scan_attempts \cup {s}
                   /\ port_scan_attempts'[s]
                         = Append(Entry(port_scan_attempts, s), port)
                   /\ \A ip \in DOMAIN port_scan_attempts \ {s} :
                         port_scan_attempts'[ip] = port_scan_attempts[ip]
       /\ (~AnalyzeStep) => port_scan_attempts' = port_scan_attempts]_vars

\* C15 witness: IpA, already past the threshold, sent one more TCP packet
\* and its entry grew to twelve ports, next to the entry of another source.
C15_Witness ==
    /\ AfterDecoded
    /\ FrameSource(last.arg) = IpA
    /\ FrameProtocol(last.arg) = PROTO_TCP
    /\ DOMAIN port_scan_attempts = {IpA, IpB}
    /\ Len(port_scan_attempts[IpA]) = PORT_SCAN_THRESHOLD + 2
    /\ Len(port_scan_attempts[IpB]) = 1

\* C16 as claimed: once a source's entry holds more than 10 ports, every
\* later packet from that source returns Intrusion/Critical.
C16_EveryPacketRetriggers ==
    [][(/\ AnalyzeStep
        /\ Decodes(last'.arg)
        /\ Len(Entry(port_scan_attempts, FrameSource(last'.arg)))
              > PORT_SCAN_THRESHOLD)
        => AlertIs(last'.alert, "Intrusion", "Critical")]_vars

\* C16 amended: once a source's entry holds more than 10 ports, every later
\* packet from that source whose IP payload holds a whole TCP header returns
\* Intrusion/Critical for that source, and no step of any operation takes
\* the entry back to 10 ports or fewer.
C16_EveryTcpParsedPacketRetriggers ==
    [][/\ (/\ AnalyzeStep
           /\ Decodes(last'.arg)
           /\ FrameSource(last'.arg) \notin blocked_ips
           /\ TcpPacket_new(FramePayload(last'.arg))
           /\ Len(Entry(port_scan_attempts, FrameSource(last'.arg)))
                 > PORT_SCAN_THRESHOLD)
            => /\ AlertIs(last'.alert, "Intrusion", "Critical")
               /\ last'.alert[1].source_ip = FrameSource(last'.arg)
       /\ \A ip \in DOMAIN port_scan_attempts :
             Len(port_scan_attempts[ip]) > PORT_SCAN_THRESHOLD
                => /\ ip \in DOMAIN port_scan_attempts'
                   /\ Len(port_scan_attempts'[ip]) > PORT_SCAN_THRESHOLD
      ]_vars

\* C16 witness: two packets in a row from a source already past the
\* threshold, the second answered with Intrusion like the first.
C16_Witness ==
    /\ AfterDecoded
    /\ AlertIs(last.alert, "Intrusion", "Critical")
    /\ Len(Entry(port_scan_attempts, FrameSource(last.arg)))
          = PORT_SCAN_THRESHOLD + 3

\* C17 as claimed: after a decoded packet, known_ips holds a ConnectionInfo
\* entry for the packet's source.
C17_KnownIpsHoldsEverySource ==
    AfterDecoded => FrameSource(last.arg) \in DOMAIN known_ips

\* the monitor_bandwidth future is alive: waiting for its interval, or
\* waiting for room in the channel
RollupRunning == pc \in {"tick", "send"}

\* C18 as claimed: while the roll-up is running, a captured frame can be
\* decoded and evaluated.
C18_FramesEvaluatedWhileRollupRuns ==
    (RollupRunning /\ evaluated < MaxPackets) => ENABLED AnalyzePacket

\* a step that ends a pass of the roll-up with its reset
ResetStep ==
    /\ RollupRunning
    /\ last'.op \in {"tick", "tick_resumed"}
    /\ last'.ok
    /\ pc' = "tick"

\* C19: packet evaluation and the sweep run only while no roll-up holds the
\* monitor, and a roll-up pass is not interleaved with them: from its read
\* of bandwidth_usage to its reset the accumulator does not change, and the
\* reset removes exactly the bytes the pass read.
C19_StatsAccessSerialized ==
    [][/\ AnalyzeStep => (pc = "idle" /\ pc' = "idle")
       /\ (last.op # "detect_anomalies" /\ last'.op = "detect_anomalies")
            => (pc = "idle" /\ pc' = "idle")
       /\ RollupRunning /\ ~ResetStep
            => <<bandwidth_usage, packet_count, port_scan_attempts>>'
                 = <<bandwidth_usage, packet_count, port_scan_attempts>>
       /\ ResetStep
            => /\ last'.arg = <<bandwidth_usage>>
               /\ bandwidth_usage' = 0
               /\ <<packet_count, port_scan_attempts>>'
                    = <<packet_count, port_scan_attempts>>]_vars

\* C19 witness: after packets were accounted, a pass has read the
\* accumulator and waits in its send, the reset still ahead of it.
C19_Witness ==
    /\ pc = "send"
    /\ evaluated > 0
    /\ last.op = "tick_blocked"
    /\ last.arg = <<bandwidth_usage>>

\* C20: with the channel open and at capacity, a pass that built a Bandwidth
\* alert waits with the alert undelivered and bandwidth_usage untouched; the
\* wait ends by the alert entering the channel, in the step that also does
\* the reset, unless the receiver is dropped or the caller drops the
\* roll-up; and no step removes an alert from the channel except the
\* consumer's receive and the closing of the channel.
C20_FullChannelBlocksThenDelivers ==
    [][/\ (TickStep /\ OverBandwidth(bandwidth_usage) /\ rx_open
             /\ Len(alert_chan) = ChanCap)
            => /\ pc' = "send"
               /\ alert_chan' = alert_chan
               /\ bandwidth_usage' = bandwidth_usage
       /\ (pc = "send" /\ pc' # "send")
            => \/ /\ Len(alert_chan) < ChanCap
                  /\ alert_chan' = Append(alert_chan, BandwidthAlert)
                  /\ bandwidth_usage' = 0
                  /\ pc' = "tick"
               \/ ~rx_open /\ ~last'.ok
               \/ last'.op = "drop"
       /\ (pc = "send" /\ pc' = "send") => bandwidth_usage' = bandwidth_usage
       /\ \/ IsPrefix(alert_chan, alert_chan')
          \/ last'.op = "recv" /\ alert_chan' = Tail(alert_chan)
          \/ last'.op = "close" /\ ~rx_open']_vars

\* C20 witness: a pass that had waited on the full channel has delivered
\* its alert into the slot the consumer freed, and has reset the counter.
C20_Witness ==
    /\ last.op = "tick_resumed"
    /\ last.ok
    /\ last.arg[1] > BANDWIDTH_THRESHOLD * BYTES_PER_MB
    /\ alert_chan # <<>>
    /\ alert_chan[Len(alert_chan)] = BandwidthAlert
    /\ bandwidth_usage = 0
    /\ pc = "tick"

\* the loop of start_monitoring has something to do
MonitorStep == RecvEvent \/ ScanStep

\* C14 as claimed: with the sensitive file in the directory before
\* start_monitoring is started on it, and nothing written since, the running
\* monitor has recorded an alert or still has a step to take towards one.
C14_AlertForFileWrittenBeforeStart ==
    (/\ fm_pc \in {"recv", "scan"}
     /\ writes = 0
     /\ \E p \in DOMAIN files : files[p] = SensitiveTxt)
      => (alerts # <<>> \/ ENABLED MonitorStep)

\* C21: the engine NetworkMonitor::new builds has an empty blocklist, no
\* step of any operation changes it, and no call of analyze_packet returns
\* an UnauthorizedAccess alert.
C21_BlocklistStaysEmpty ==
    /\ blocked_ips = {}
    /\ last.op = "analyze_packet"
          => (last.alert = None \/ last.alert[1].alert_type # "UnauthorizedAccess")

\* C21 witness: the second packet in a row from one source carries a
\* signature and is answered with Malware: the source is not refused.
C21_Witness ==
    /\ AfterDecoded
    /\ evaluated = MaxPackets
    /\ FrameSource(last.arg) = IpB
    /\ Len(Entry(port_scan_attempts, IpB)) = MaxPackets
    /\ check_malware_signatures(FramePayload(last.arg))
    /\ AlertIs(last.alert, "Malware", "Critical")

\* C22: known_ips stays empty and connection_count stays 0 through packet
\* evaluations and roll-up ticks, so a sweep returns the traffic-spike alert
\* or nothing.
C22_SweepOnlyTrafficSpike ==
    /\ known_ips = EmptyMap
    /\ connection_count = 0
    /\ AfterSweep => last.alert \in {None, Some(TrafficSpikeAlert)}

\* C22 witness: packets of a source were evaluated and tracked, and the
\* sweep that followed saw no address and returned nothing.
C22_Witness ==
    /\ AfterSweep
    /\ evaluated = MaxPackets
    /\ port_scan_attempts # EmptyMap
    /\ known_ips = EmptyMap
    /\ last.alert = None

\* C23: no step lowers packet_count, a roll-up pass leaves it as it is, and
\* a sweep made while it is over 10000 returns the traffic-spike alert.
C23_PacketCountNeverDecreases ==
    [][/\ packet_count' >= packet_count
       /\ RollupRunning => packet_count' = packet_count
       /\ (packet_count > PACKET_THRESHOLD /\ last'.op = "detect_anomalies")
            => last'.alert = Some(TrafficSpikeAlert)]_vars

\* C23 witness: the counter went over 10000, a further packet was counted,
\* and the sweep still returns the traffic-spike alert.
C23_Witness ==
    /\ AfterSweep
    /\ evaluated = MaxPackets
    /\ packet_count = PACKET_THRESHOLD + MaxPackets
    /\ last.alert = Some(TrafficSpikeAlert)

\* the alerts a directory or a list holds
Stored(dir) == {dir[n] : n \in DOMAIN dir}

\* C24 as claimed: when send_alert has returned, Ok or Err, the alert it was
\* given has been accepted by the backend or is in the failed_alerts spool.
C24_AlertAcceptedOrSpooled ==
    last.op = "send_alert"
      => (last.arg \in Stored(accepted) \/ last.arg \in Stored(failed_alerts))

\* C25 as claimed: a file of the failed_alerts spool stays, with the alert
\* it holds, through every later step.
C25_SpoolNeverOverwritten ==
    [][\A n \in DOMAIN failed_alerts :
          /\ n \in DOMAIN failed_alerts'
          /\ failed_alerts'[n] = failed_alerts[n]]_vars

\* every task the form has spawned is finished
TasksFinished == tasks # <<>> /\ \A i \in DOMAIN tasks : tasks[i].pc = "done"

\* C26 as claimed: once the spawned registration task has finished and a
\* frame has been drawn since, the status is no longer InProgress: it is the
\* Success or Error value a task ended with.
C26_StatusFollowsTask ==
    (TasksFinished /\ last.op = "show" /\ last.arg = <<FALSE>>)
      => \E i \in DOMAIN tasks : registration_status = Some(tasks[i].result)

====
